---- MODULE Spec2Model ----
(***************************************************************************)
(* Model of the I2S slave transmitter of src/micro.py (the device side)    *)
(* and of the host sender of src/ps.py.                                    *)
(*                                                                         *)
(* Two contexts run concurrently on the device: the MicroPython program    *)
(* stream_audio (the producer: header parse, chunk reads, send_samples,    *)
(* send_sample -> sm.put) and the PIO state machine running the program    *)
(* i2s_slave_tx (the bit shifter), clocked by two input pins the I2S       *)
(* master drives.  The TX FIFO of the state machine is the only thing the  *)
(* two share.                                                              *)
(*                                                                         *)
(* Bytes are numbers 0..255, byte strings are sequences of bytes; a 32-bit *)
(* word (a FIFO entry, the output shift register) is the set of the        *)
(* positions 0..31 of its 1 bits, position 0 the least significant.        *)
(***************************************************************************)
EXTENDS Integers, Sequences, FiniteSets, TLC

VARIABLES
    input,      \* which byte stream the transport (sys.stdin.buffer) delivers
                \* (in SpecParse: the fields the parsed bytes are built from)
    rd,         \* number of bytes of the stream already read
    ppc,        \* position of the producer in stream_audio
    hdrLen,     \* len(header): header is the first hdrLen bytes of the stream
    info,       \* result of parse_wav_header(header)
    dataStart,  \* data_start of stream_audio (-1 is None)
    dataOff,    \* the chunk `data`/`samples` is stream[dataOff : dataOff+dataLen]
    dataLen,
    idx,        \* loop variable i of send_samples
    fifo,       \* TX FIFO of the state machine: words put and not yet pulled
    pushed,     \* history: the (left, right) pairs send_sample was called with
    chunkLens,  \* history: the lengths of the chunks given to send_samples
    spc,        \* program counter of the PIO state machine (0..11)
    x,          \* scratch register X
    osr,        \* output shift register
    sd,         \* level of the serial-data output pin (GP2)
    bck,        \* level of GP0, driven by the master
    ws,         \* level of GP1, driven by the master
    bitsOut,    \* history: the bits presented since the program last wrapped
    pushedAtStart, \* history: frames pushed when the current pass left address 0
    cycles,     \* history: number of completed passes of the program (capped)
    walkPos,    \* pos of the chunk walk of parse_wav_header, taken stepwise
    sendAt,     \* loop variable i of send_wav_file (src/ps.py)
    sent,       \* sent of send_wav_file
    written     \* history: the chunks send_wav_file gave to ser.write

vars == <<input, rd, ppc, hdrLen, info, dataStart, dataOff, dataLen, idx, fifo,
          pushed, chunkLens, spc, x, osr, sd, bck, ws, bitsOut, pushedAtStart,
          cycles, walkPos, sendAt, sent, written>>

prodVars == <<rd, ppc, hdrLen, info, dataStart, dataOff, dataLen, idx, fifo,
              pushed, chunkLens>>
smVars == <<spc, x, osr, sd, bitsOut, pushedAtStart, cycles>>
pinVars == <<bck, ws>>
walkVars == <<walkPos>>
hostVars == <<sendAt, sent, written>>

---------------------------------------------------------------------------
(* Bounds of the model. *)

\* Completed passes of the PIO program that the history counter tells apart.
MaxCycles == 2

\* Longest byte stream fed to send_samples in SpecAsm.
MaxAsmLen == 9

\* Longest wav_data and largest chunk_size given to send_wav_file in SpecHost.
MaxWavLen == 10
MaxChunkSize == 4

\* Most unknown chunks before the end or the `fmt ` chunk in SpecWalk.
MaxWalkChunks == 3

\* Most unknown chunks placed between `fmt ` and `data` in SpecParse.
MaxUnknown == 2

---------------------------------------------------------------------------
(* Program constants. *)

BCK_PIN == 0
WS_PIN == 1
SD_PIN == 2

\* in_base of the state machine: `wait(_, pin, k)` reads GPIO in_base + k.
InBase == BCK_PIN

\* Depth of the TX FIFO: four words, the FIFOs are not joined.
FifoDepth == 4

HeaderSize == 44
ExtraSize == 100
ChunkSize == 512

---------------------------------------------------------------------------
(* Byte strings. *)

Min(a, b) == IF a < b THEN a ELSE b

\* Python's s[a:b] for 0 <= a, with b clamped to the length.
Slice(s, a, b) == SubSeq(s, a + 1, Min(b, Len(s)))

\* struct.unpack('<H', b)[0] and struct.unpack('<I', b)[0]
U16(b) == b[1] + 256 * b[2]
U32(b) == b[1] + 256 * b[2] + 65536 * b[3] + 16777216 * b[4]

\* struct.unpack('<h', b)[0]: 16-bit two's complement, little-endian
S16(b) == IF U16(b) >= 32768 THEN U16(b) - 65536 ELSE U16(b)

\* struct.pack('<H', v) and struct.pack('<I', v)
LE16(v) == <<v % 256, v \div 256>>
LE32(v) == <<v % 256, (v \div 256) % 256, (v \div 65536) % 256, v \div 16777216>>

RIFF == <<82, 73, 70, 70>>
WAVE == <<87, 65, 86, 69>>
FMT == <<102, 109, 116, 32>>
DATA == <<100, 97, 116, 97>>
LIST == <<76, 73, 83, 84>>

---------------------------------------------------------------------------
(* 32-bit words. *)

\* The 1 bits of v & 0xFFFF.
BitsOf(v) == {b \in 0..15 : ((v % 65536) \div (2 ^ b)) % 2 = 1}

\* w << n, for a word w
ShiftLeft(w, n) == {b + n : b \in {c \in w : c + n <= 31}}

\* The packing with the two halves exchanged.
PackSwapped(left, right) == ShiftLeft(BitsOf(right), 16) \cup BitsOf(left)

\* line 77: ((left & 0xFFFF) << 16) | (right & 0xFFFF)
Pack(left, right) == ShiftLeft(BitsOf(left), 16) \cup BitsOf(right)

\* The most significant bit of a word.
Msb(w) == IF 31 \in w THEN 1 ELSE 0

ZeroWord == {}
OnesWord == 0..31

---------------------------------------------------------------------------
(* The byte streams the transport delivers: what convert_to_stereo_16bit   *)
(* of src/ps.py writes (a RIFF/WAVE header, a 16-byte `fmt ` chunk, a      *)
(* `data` chunk), and variations of it.                                    *)

\* The payload of the `fmt ` chunk.
FmtPayload(format, channels, rate, bits) ==
    LE16(format) \o LE16(channels) \o LE32(rate) \o LE32(rate * channels * 2)
        \o LE16(channels * 2) \o LE16(bits)

\* A chunk: 4-byte id, little-endian 32-bit length, payload.
Chunk(id, payload) == id \o LE32(Len(payload)) \o payload

\* A chunk header that declares `declared` bytes, whatever follows it.
ChunkDeclaring(id, declared, payload) == id \o LE32(declared) \o payload

Wav(body) == RIFF \o LE32(4 + Len(body)) \o WAVE \o body

FmtChunk(format, channels, rate, bits) == Chunk(FMT, FmtPayload(format, channels, rate, bits))

\* n bytes of audio, all different from their neighbours.
Ramp(n) == [k \in 1..n |-> (k * 37 + 11) % 256]

\* The two frames {left 1, right 2} and {left -1, right -32768}.
TwoFrames == <<1, 0, 2, 0, 255, 255, 0, 128>>

\* Streams 1..9 are sessions of stream_audio; stream 100 + n is n bytes of raw
\* audio, handed to send_samples in pieces.
SessionStreams == 1..9
AsmStreams == {100 + n : n \in 0..MaxAsmLen}

\* The stream convert_to_stereo_16bit writes for two frames of audio.
Stream1 == Wav(FmtChunk(1, 2, 44100, 16) \o Chunk(DATA, TwoFrames))

\* 100 bytes of audio, the two frames, and half a frame.
Stream2 ==
    Wav(FmtChunk(1, 2, 44100, 16) \o Chunk(DATA, Ramp(ExtraSize) \o TwoFrames \o <<9, 9>>))

\* 100 bytes of audio and five more frames.
Stream3 == Wav(FmtChunk(1, 2, 48000, 16) \o Chunk(DATA, Ramp(ExtraSize + 20)))

\* Stream1 with RIFX for RIFF.
Stream4 == <<82, 73, 70, 88>> \o SubSeq(Stream1, 5, Len(Stream1))

\* A stream that ends after 20 bytes.
Stream5 == SubSeq(Stream1, 1, 20)

\* A LIST chunk between `fmt ` and `data`.
Stream6 ==
    Wav(FmtChunk(1, 2, 44100, 16) \o Chunk(LIST, <<73, 78, 70, 79>>) \o Chunk(DATA, TwoFrames))

\* 8-bit mono.
Stream7 == Wav(FmtChunk(1, 1, 8000, 8) \o Chunk(DATA, Ramp(ExtraSize) \o TwoFrames))

\* A 24-byte LIST chunk before `fmt `: no `fmt ` in the first 44 bytes.
Stream8 ==
    Wav(Chunk(LIST, Ramp(24)) \o FmtChunk(1, 2, 44100, 16) \o Chunk(DATA, TwoFrames))

\* An empty `data` chunk before `fmt `, and audio after the 44 bytes.
Stream9 == Wav(Chunk(DATA, <<>>) \o FmtChunk(1, 2, 44100, 16)) \o TwoFrames

RawAudio == Ramp(MaxAsmLen)

Stream(s) ==
    CASE s = 1 -> Stream1
      [] s = 2 -> Stream2
      [] s = 3 -> Stream3
      [] s = 4 -> Stream4
      [] s = 5 -> Stream5
      [] s = 6 -> Stream6
      [] s = 7 -> Stream7
      [] s = 8 -> Stream8
      [] s = 9 -> Stream9
      [] s >= 100 -> SubSeq(RawAudio, 1, s - 100)

\* sys.stdin.buffer.read(n) at read position `at`: the next n bytes, fewer only
\* at the end of the stream, none once it is exhausted.
ReadLen(s, at, n) == Min(n, Len(Stream(s)) - at)

---------------------------------------------------------------------------
(* parse_wav_header *)

ValueError(msg) == [outcome |-> "ValueError", msg |-> msg]

\* A decoder that reads bits-per-sample at offset 12 (block align) instead of 14.
DecodeFmtWrongOffset(fmt_data) ==
    IF Len(fmt_data) < 16
    THEN ValueError("buffer too small")
    ELSE [outcome |-> "ok",
          format |-> U16(Slice(fmt_data, 0, 2)),
          channels |-> U16(Slice(fmt_data, 2, 4)),
          sample_rate |-> U32(Slice(fmt_data, 4, 8)),
          bits |-> U16(Slice(fmt_data, 12, 14))]

\* lines 109-120: decode the `fmt ` payload.  struct.unpack raises when a
\* slice is shorter than its format.
DecodeFmt(fmt_data) ==
    IF Len(fmt_data) < 16
    THEN ValueError("buffer too small")
    ELSE [outcome |-> "ok",
          format |-> U16(Slice(fmt_data, 0, 2)),
          channels |-> U16(Slice(fmt_data, 2, 4)),
          sample_rate |-> U32(Slice(fmt_data, 4, 8)),
          bits |-> U16(Slice(fmt_data, 14, 16))]

RECURSIVE FmtWalk(_, _)
\* lines 104-124: the chunk walk, from position pos.
FmtWalk(header, pos) ==
    IF ~(pos < Len(header) - 8)
    THEN ValueError("No fmt chunk found")
    ELSE LET chunk_id == Slice(header, pos, pos + 4)
             chunk_size == U32(Slice(header, pos + 4, pos + 8))
         IN  IF chunk_id = FMT
             THEN DecodeFmt(Slice(header, pos + 8, pos + 8 + chunk_size))
             ELSE FmtWalk(header, pos + 8 + chunk_size)

\* The test of lines 99-100 asking for both magics to be wrong.
parse_wav_header_BothMagics(header) ==
    IF Slice(header, 0, 4) # RIFF /\ Slice(header, 8, 12) # WAVE
    THEN ValueError("Not a valid WAV file")
    ELSE FmtWalk(header, 12)

\* lines 97-124
parse_wav_header(header) ==
    IF Slice(header, 0, 4) # RIFF \/ Slice(header, 8, 12) # WAVE
    THEN ValueError("Not a valid WAV file")
    ELSE FmtWalk(header, 12)

RECURSIVE DataWalk(_, _)
\* lines 152-160 of stream_audio: data_start, or -1 for None.
DataWalk(header, pos) ==
    IF ~(pos < Len(header) - 8)
    THEN -1
    ELSE LET chunk_id == Slice(header, pos, pos + 4)
             chunk_size == U32(Slice(header, pos + 4, pos + 8))
         IN  IF chunk_id = DATA
             THEN pos + 8
             ELSE DataWalk(header, pos + 8 + chunk_size)

---------------------------------------------------------------------------
(* The producer: stream_audio, send_samples, send_sample. *)

Header == Slice(Stream(input), 0, hdrLen)

\* The chunk send_samples is working on, and its byte k (0-based).
Samples == Slice(Stream(input), dataOff, dataOff + dataLen)

\* sm.put(word) without the wait: a word put on a full FIFO is dropped.
PutDropping(word) ==
    fifo' = IF Len(fifo) < FifoDepth THEN Append(fifo, word) ELSE fifo

\* sm.put(word): waits while the TX FIFO is full, then appends the word.
Put(word) ==
    /\ Len(fifo) < FifoDepth
    /\ fifo' = Append(fifo, word)

\* send_sample(left, right), lines 71-78
send_sample(left, right) ==
    /\ Put(Pack(left, right))
    /\ pushed' = Append(pushed, <<left, right>>)

\* The test of line 88 with the bound one too high.
HasFrameAtOffByOne(i, len) == i + 4 < len

\* line 88: a whole 4-byte group starts at offset i of a chunk of len bytes.
HasFrameAt(i, len) == i + 3 < len

\* lines 134-139: read the header.
ReadHeader ==
    /\ ppc = "start"
    /\ LET n == ReadLen(input, rd, HeaderSize)
       IN  /\ rd' = rd + n
           /\ hdrLen' = n
           /\ ppc' = IF n < HeaderSize THEN "incomplete" ELSE "parse"
    /\ UNCHANGED <<input, info, dataStart, dataOff, dataLen, idx, fifo, pushed,
                   chunkLens, smVars, pinVars, walkVars, hostVars>>

\* The parse with the except clause of lines 180-181 left out: the session
\* goes on to look for the data chunk whatever the parse gave.
ParseHeaderIgnoringError ==
    /\ ppc = "parse"
    /\ info' = parse_wav_header(Header)
    /\ ppc' = "find_data"
    /\ UNCHANGED <<input, rd, hdrLen, dataStart, dataOff, dataLen, idx, fifo,
                   pushed, chunkLens, smVars, pinVars, walkVars, hostVars>>

\* The parse with the warning of lines 148-149 turned into a rejection.
ParseHeaderRejectingFormat ==
    /\ ppc = "parse"
    /\ info' = parse_wav_header(Header)
    /\ ppc' = IF info'.outcome = "ok" /\ info'.bits = 16 /\ info'.channels = 2
              THEN "find_data" ELSE "error"
    /\ UNCHANGED <<input, rd, hdrLen, dataStart, dataOff, dataLen, idx, fifo,
                   pushed, chunkLens, smVars, pinVars, walkVars, hostVars>>

\* lines 141-149, 180-181: parse the header; a ValueError ends the session.
ParseHeader ==
    /\ ppc = "parse"
    /\ info' = parse_wav_header(Header)
    /\ ppc' = IF info'.outcome = "ok" THEN "find_data" ELSE "error"
    /\ UNCHANGED <<input, rd, hdrLen, dataStart, dataOff, dataLen, idx, fifo,
                   pushed, chunkLens, smVars, pinVars, walkVars, hostVars>>

\* lines 151-165: look for the data chunk in the header; read 100 more bytes
\* into the header when it is not there.
FindData ==
    /\ ppc = "find_data"
    /\ dataStart' = DataWalk(Header, 12)
    /\ LET n == IF dataStart' = -1 THEN ReadLen(input, rd, ExtraSize) ELSE 0
       IN  /\ rd' = rd + n
           /\ hdrLen' = hdrLen + n
    /\ ppc' = "stream"
    /\ UNCHANGED <<input, info, dataOff, dataLen, idx, fifo, pushed, chunkLens,
                   smVars, pinVars, walkVars, hostVars>>

\* lines 171-176: read the next chunk; an empty read ends the loop.
ReadChunk ==
    /\ ppc = "stream"
    /\ input \in SessionStreams
    /\ LET n == ReadLen(input, rd, ChunkSize)
       IN  IF n = 0
           THEN /\ ppc' = "complete"
                /\ UNCHANGED <<rd, dataOff, dataLen, idx, chunkLens>>
           ELSE /\ ppc' = "send"
                /\ rd' = rd + n
                /\ dataOff' = rd
                /\ dataLen' = n
                /\ idx' = 0
                /\ chunkLens' = Append(chunkLens, n)
    /\ UNCHANGED <<input, hdrLen, info, dataStart, fifo, pushed, smVars, pinVars, walkVars, hostVars>>

\* lines 87-91: one iteration of the loop of send_samples over a bytes buffer,
\* or its end.
SendStep ==
    /\ ppc = "send"
    /\ IF idx < dataLen
       THEN /\ IF HasFrameAt(idx, dataLen)
               THEN \E left \in {S16(Slice(Samples, idx, idx + 2))},
                       right \in {S16(Slice(Samples, idx + 2, idx + 4))} :
                          send_sample(left, right)
               ELSE UNCHANGED <<fifo, pushed>>
            /\ idx' = idx + 4
            /\ UNCHANGED ppc
       ELSE /\ ppc' = "stream"
            /\ UNCHANGED <<idx, fifo, pushed>>
    /\ UNCHANGED <<input, rd, hdrLen, info, dataStart, dataOff, dataLen,
                   chunkLens, smVars, pinVars, walkVars, hostVars>>

---------------------------------------------------------------------------
(* The bit shifter: the PIO program i2s_slave_tx, one action per            *)
(* instruction.  The program is twelve instructions, addresses 0..11, and   *)
(* wraps from the last to the first.  It has no pull instruction and the    *)
(* state machine is built without autopull, so nothing moves a word from    *)
(* the TX FIFO into the output shift register.                              *)

\* The level of input pin k of the state machine: GPIO in_base + k.
InPin(k) == IF InBase + k = BCK_PIN THEN bck ELSE ws

\* wait(polarity, pin, k) at address a: stall until input pin k has the level.
Wait(a, polarity, k) ==
    /\ spc = a
    /\ InPin(k) = polarity
    /\ spc' = a + 1
    /\ UNCHANGED <<x, osr, sd, cycles>>

\* set(x, 15) at address a
SetX(a) ==
    /\ spc = a
    /\ x' = 15
    /\ spc' = a + 1
    /\ UNCHANGED <<osr, sd, bitsOut, pushedAtStart, cycles>>

\* out(pins, 1) at address a, with out_shiftdir = SHIFT_LEFT: the most
\* significant bit of the OSR goes to the pin, the OSR shifts left by one and
\* takes a 0 at the other end.  Autopull is off: an exhausted OSR is not refilled.
Out(a) ==
    /\ spc = a
    /\ sd' = Msb(osr)
    /\ osr' = ShiftLeft(osr, 1)
    /\ bitsOut' = Append(bitsOut, Msb(osr))
    /\ spc' = a + 1
    /\ UNCHANGED <<x, pushedAtStart, cycles>>

\* jmp(x_dec, target) at address a: jump when X is not zero, and decrement X
\* in either case.  X is 32 bits wide; 0 - 1 is all ones, held here as -1, and
\* is overwritten by the next set(x, 15) before it is read.
JmpXDec(a, target) ==
    /\ spc = a
    /\ spc' = IF x # 0 THEN target ELSE (a + 1) % 12
    /\ x' = x - 1
    /\ cycles' = IF a = 11 /\ x = 0 /\ cycles < MaxCycles THEN cycles + 1 ELSE cycles
    /\ UNCHANGED <<osr, sd, bitsOut, pushedAtStart>>

\* line 25
AwaitWordSelectLow ==
    /\ Wait(0, 0, 0)
    /\ bitsOut' = <<>>
    /\ pushedAtStart' = Len(pushed)
    /\ UNCHANGED <<input, prodVars, pinVars, walkVars, hostVars>>

\* line 28
SetXLeft == SetX(1) /\ UNCHANGED <<input, prodVars, pinVars, walkVars, hostVars>>

\* line 30
LeftWaitRise ==
    Wait(2, 1, 1) /\ UNCHANGED <<bitsOut, pushedAtStart, input, prodVars, pinVars, walkVars, hostVars>>

\* line 31
LeftOut == Out(3) /\ UNCHANGED <<input, prodVars, pinVars, walkVars, hostVars>>

\* line 32
LeftWaitFall ==
    Wait(4, 0, 1) /\ UNCHANGED <<bitsOut, pushedAtStart, input, prodVars, pinVars, walkVars, hostVars>>

\* line 33
LeftJmp == JmpXDec(5, 2) /\ UNCHANGED <<input, prodVars, pinVars, walkVars, hostVars>>

\* line 36
AwaitWordSelectHigh ==
    Wait(6, 1, 0) /\ UNCHANGED <<bitsOut, pushedAtStart, input, prodVars, pinVars, walkVars, hostVars>>

\* line 39
SetXRight == SetX(7) /\ UNCHANGED <<input, prodVars, pinVars, walkVars, hostVars>>

\* line 41
RightWaitRise ==
    Wait(8, 1, 1) /\ UNCHANGED <<bitsOut, pushedAtStart, input, prodVars, pinVars, walkVars, hostVars>>

\* line 42
RightOut == Out(9) /\ UNCHANGED <<input, prodVars, pinVars, walkVars, hostVars>>

\* line 43
RightWaitFall ==
    Wait(10, 0, 1) /\ UNCHANGED <<bitsOut, pushedAtStart, input, prodVars, pinVars, walkVars, hostVars>>

\* line 44, and the wrap to the first instruction
RightJmp == JmpXDec(11, 8) /\ UNCHANGED <<input, prodVars, pinVars, walkVars, hostVars>>

Shifter ==
    \/ AwaitWordSelectLow \/ SetXLeft \/ LeftWaitRise \/ LeftOut
    \/ LeftWaitFall \/ LeftJmp \/ AwaitWordSelectHigh \/ SetXRight
    \/ RightWaitRise \/ RightOut \/ RightWaitFall \/ RightJmp

---------------------------------------------------------------------------
(* The I2S master: it drives GP0 and GP1 as it likes. *)

MasterToggleGP0 ==
    /\ bck' = 1 - bck
    /\ UNCHANGED <<ws, input, prodVars, smVars, walkVars, hostVars>>

MasterToggleGP1 ==
    /\ ws' = 1 - ws
    /\ UNCHANGED <<bck, input, prodVars, smVars, walkVars, hostVars>>

Master == MasterToggleGP0 \/ MasterToggleGP1

---------------------------------------------------------------------------
(* The device: one session of stream_audio beside the running shifter. *)

NoInfo == [outcome |-> "none"]

\* After I2SSlaveTX() (lines 48-65): the state machine is active at its first
\* instruction with an empty TX FIFO and the output pin low.  Nothing has
\* loaded the OSR: it holds what the state machine was left with.
InitDevice ==
    /\ rd = 0
    /\ hdrLen = 0
    /\ info = NoInfo
    /\ dataStart = -1
    /\ dataOff = 0
    /\ dataLen = 0
    /\ idx = 0
    /\ fifo = <<>>
    /\ pushed = <<>>
    /\ chunkLens = <<>>
    /\ spc = 0
    /\ x = 0
    /\ osr \in {ZeroWord, OnesWord}
    /\ sd = 0
    /\ bck \in {0, 1}
    /\ ws \in {0, 1}
    /\ bitsOut = <<>>
    /\ pushedAtStart = 0
    /\ cycles = 0
    /\ walkPos = 0
    /\ sendAt = 0
    /\ sent = 0
    /\ written = <<>>

Init ==
    /\ input \in SessionStreams
    /\ ppc = "start"
    /\ InitDevice

Producer == ReadHeader \/ ParseHeader \/ FindData \/ ReadChunk \/ SendStep

Next ==
    \/ ReadHeader \/ ParseHeader \/ FindData \/ ReadChunk \/ SendStep
    \/ AwaitWordSelectLow \/ SetXLeft \/ LeftWaitRise \/ LeftOut
    \/ LeftWaitFall \/ LeftJmp \/ AwaitWordSelectHigh \/ SetXRight
    \/ RightWaitRise \/ RightOut \/ RightWaitFall \/ RightJmp
    \/ MasterToggleGP0 \/ MasterToggleGP1

Spec == Init /\ [][Next]_vars

\* Sessions over the streams that carry frames, with progress assumed: the
\* master keeps both clocks toggling, the state machine executes an
\* instruction whenever its wait condition holds again and again, and the
\* MicroPython program runs whenever it can.
InitFair ==
    /\ input \in {2, 3}
    /\ ppc = "start"
    /\ InitDevice
    /\ osr = ZeroWord

FairSpec ==
    /\ InitFair
    /\ [][Next]_vars
    /\ WF_vars(MasterToggleGP0)
    /\ WF_vars(MasterToggleGP1)
    /\ SF_vars(Shifter)
    /\ WF_vars(Producer)

---------------------------------------------------------------------------
(* send_samples alone: a byte stream handed to it in chunks of any sizes.  *)

\* The caller hands the next c bytes of the stream to send_samples.
AsmFeed ==
    /\ ppc = "stream"
    /\ input \in AsmStreams
    /\ \E c \in 1..(Len(Stream(input)) - rd) :
          /\ dataOff' = rd
          /\ dataLen' = c
          /\ rd' = rd + c
          /\ chunkLens' = Append(chunkLens, c)
    /\ idx' = 0
    /\ ppc' = "send"
    /\ UNCHANGED <<input, hdrLen, info, dataStart, fifo, pushed, smVars, pinVars, walkVars, hostVars>>

InitAsm ==
    /\ input \in AsmStreams
    /\ ppc = "stream"
    /\ InitDevice

NextAsm == AsmFeed \/ SendStep

SpecAsm == InitAsm /\ [][NextAsm]_vars

---------------------------------------------------------------------------
(* parse_wav_header alone, on headers with chunks between `fmt ` and       *)
(* `data`.                                                                 *)

RECURSIVE SeqsUpTo(_, _)
\* The sequences over S of length at most n.
SeqsUpTo(S, n) ==
    IF n = 0 THEN {<<>>}
    ELSE LET shorter == SeqsUpTo(S, n - 1)
         IN  shorter \cup {Append(q, e) : q \in shorter, e \in S}

\* Declared lengths of an unknown chunk: empty, odd, and far past the end.
DeclaredLengths == {0, 3, 1000}

ParseInputs ==
    [format : {1, 3}, channels : {1, 2}, rate : {8000, 44100}, bits : {8, 16, 24},
     fmtExtra : {0, 2}, pre : {0, 1}, mid : SeqsUpTo(DeclaredLengths, MaxUnknown)]

RECURSIVE UnknownChunks(_)
\* Unknown chunks with the declared lengths ds; of a length past the end only
\* three bytes are there.
UnknownChunks(ds) ==
    IF ds = <<>> THEN <<>>
    ELSE ChunkDeclaring(LIST, Head(ds), Ramp(Min(Head(ds), 3))) \o UnknownChunks(Tail(ds))

\* RIFF/WAVE, an optional unknown chunk, `fmt ` (16 bytes or with an
\* extension), the unknown chunks, `data`.
ParseInput(p) ==
    Wav((IF p.pre = 1 THEN Chunk(LIST, Ramp(6)) ELSE <<>>)
        \o Chunk(FMT, FmtPayload(p.format, p.channels, p.rate, p.bits) \o Ramp(p.fmtExtra))
        \o UnknownChunks(p.mid)
        \o Chunk(DATA, TwoFrames))

ParseOnly ==
    /\ ppc = "parse_only"
    /\ info' = parse_wav_header(ParseInput(input))
    /\ ppc' = "parsed"
    /\ UNCHANGED <<input, rd, hdrLen, dataStart, dataOff, dataLen, idx, fifo,
                   pushed, chunkLens, smVars, pinVars, walkVars, hostVars>>

InitParse ==
    /\ input \in ParseInputs
    /\ ppc = "parse_only"
    /\ InitDevice
    /\ osr = ZeroWord /\ bck = 0 /\ ws = 0

NextParse == ParseOnly

SpecParse == InitParse /\ [][NextParse]_vars

---------------------------------------------------------------------------
(* parse_wav_header alone, on the headers of SpecParse with the magics     *)
(* damaged.                                                                *)

\* What is done to the bytes: nothing, byte 3 replaced (RIFX), byte 11
\* replaced (WAVX), both, the two magics exchanged, all but the first ten
\* bytes dropped, all bytes dropped.
Damages == {"none", "riff", "wave", "both", "exchanged", "cut", "empty"}

\* s with the element at 0-based offset k replaced by b.
WithByte(s, k, b) == [s EXCEPT ![k + 1] = b]

Damage(s, d) ==
    CASE d = "none" -> s
      [] d = "riff" -> WithByte(s, 3, 88)
      [] d = "wave" -> WithByte(s, 11, 88)
      [] d = "both" -> WithByte(WithByte(s, 3, 88), 11, 88)
      [] d = "exchanged" -> WAVE \o Slice(s, 4, 8) \o RIFF \o Slice(s, 12, Len(s))
      [] d = "cut" -> Slice(s, 0, 10)
      [] d = "empty" -> <<>>

DamagedInputs == [fields : ParseInputs, damage : Damages]

DamagedInput(p) == Damage(ParseInput(p.fields), p.damage)

ParseDamaged ==
    /\ ppc = "parse_damaged"
    /\ info' = parse_wav_header(DamagedInput(input))
    /\ ppc' = "parsed_damaged"
    /\ UNCHANGED <<input, rd, hdrLen, dataStart, dataOff, dataLen, idx, fifo,
                   pushed, chunkLens, smVars, pinVars, walkVars, hostVars>>

InitDamaged ==
    /\ input \in DamagedInputs
    /\ ppc = "parse_damaged"
    /\ InitDevice
    /\ osr = ZeroWord /\ bck = 0 /\ ws = 0

NextDamaged == ParseDamaged

SpecDamaged == InitDamaged /\ [][NextDamaged]_vars

---------------------------------------------------------------------------
(* send_sample alone, on every sample value in each place and on pairs of  *)
(* values at and around the ends of the 16-bit range and of its bytes.     *)

SampleValues == {-32768, -32767, -257, -256, -1, 0, 1, 255, 256, 32766, 32767}

\* Every 16-bit sample value.
AllSamples == -32768..32767

\* The pairs send_sample is called with: the values above against each
\* other, and every sample value in either place against 0 and -1.
SamplePairs ==
    [left : SampleValues, right : SampleValues]
        \cup [left : AllSamples, right : {0, -1}]
        \cup [left : {0, -1}, right : AllSamples]

\* One call send_sample(left, right) on the empty TX FIFO.
PackOne ==
    /\ ppc = "pack"
    /\ send_sample(input.left, input.right)
    /\ ppc' = "packed"
    /\ UNCHANGED <<input, rd, hdrLen, info, dataStart, dataOff, dataLen, idx,
                   chunkLens, smVars, pinVars, walkVars, hostVars>>

InitPack ==
    /\ input \in SamplePairs
    /\ ppc = "pack"
    /\ InitDevice
    /\ osr = ZeroWord /\ bck = 0 /\ ws = 0

NextPack == PackOne

SpecPack == InitPack /\ [][NextPack]_vars

---------------------------------------------------------------------------
(* The host sender: the loop of send_wav_file (src/ps.py) over wav_data.   *)

\* wav_data with the slice end one short.
ChunkAtShort(wav_data, i, size) == Slice(wav_data, i, i + size - 1)

\* line 125 of src/ps.py: wav_data[i:i+chunk_size]
ChunkAt(wav_data, i, size) == Slice(wav_data, i, i + size)

\* wav_data of every length up to MaxWavLen against every chunk_size up to
\* MaxChunkSize.
HostInputs ==
    {[wav_data |-> Ramp(n), chunk_size |-> c] : n \in 0..MaxWavLen, c \in 1..MaxChunkSize}

\* lines 124-128 of src/ps.py: one iteration of the loop.
HostWrite ==
    /\ ppc = "host_send"
    /\ sendAt < Len(input.wav_data)
    /\ \E chunk \in {ChunkAt(input.wav_data, sendAt, input.chunk_size)} :
          /\ written' = Append(written, chunk)
          /\ sent' = sent + Len(chunk)
    /\ sendAt' = sendAt + input.chunk_size
    /\ UNCHANGED <<input, prodVars, smVars, pinVars, walkVars>>

\* line 124 of src/ps.py: the range is exhausted.
HostDone ==
    /\ ppc = "host_send"
    /\ sendAt >= Len(input.wav_data)
    /\ ppc' = "host_done"
    /\ UNCHANGED <<input, rd, hdrLen, info, dataStart, dataOff, dataLen, idx, fifo,
                   pushed, chunkLens, smVars, pinVars, walkVars, hostVars>>

InitHost ==
    /\ input \in HostInputs
    /\ ppc = "host_send"
    /\ InitDevice
    /\ osr = ZeroWord /\ bck = 0 /\ ws = 0

NextHost == HostWrite \/ HostDone

SpecHost == InitHost /\ [][NextHost]_vars

---------------------------------------------------------------------------
(* parse_wav_header taken one loop iteration at a time, on headers whose   *)
(* chunks before `fmt ` declare lengths of 0, 3 and far past the end.      *)

\* The advance without the 8 bytes of the chunk header.
WalkAdvanceBySizeOnly(p, size) == p + size

\* line 122: pos += 8 + chunk_size
WalkAdvance(p, size) == p + 8 + size

\* What follows the unknown chunks: nothing, five bytes that are no chunk
\* header, or a `fmt ` chunk.
WalkTail(t) ==
    CASE t = "none" -> <<>>
      [] t = "stub" -> Ramp(5)
      [] t = "fmt" -> FmtChunk(1, 2, 44100, 16)

\* The bytes are part of the input, next to the declared lengths they were
\* built from.
WalkInputs ==
    {[header |-> Wav(UnknownChunks(ds) \o WalkTail(t)), lens |-> ds, tail |-> t] :
        ds \in SeqsUpTo(DeclaredLengths, MaxWalkChunks), t \in {"none", "stub", "fmt"}}

\* lines 99-103: the magic test and pos = 12.
WalkStart ==
    /\ ppc = "walk_start"
    /\ IF Slice(input.header, 0, 4) # RIFF \/ Slice(input.header, 8, 12) # WAVE
       THEN /\ info' = ValueError("Not a valid WAV file")
            /\ ppc' = "walk_end"
            /\ UNCHANGED walkPos
       ELSE /\ walkPos' = 12
            /\ ppc' = "walk"
            /\ UNCHANGED info
    /\ UNCHANGED <<input, rd, hdrLen, dataStart, dataOff, dataLen, idx, fifo,
                   pushed, chunkLens, smVars, pinVars, hostVars>>

\* lines 104-124: the loop test and one iteration, or the raise after the
\* loop.
WalkStep ==
    /\ ppc = "walk"
    /\ IF ~(walkPos < Len(input.header) - 8)
       THEN /\ info' = ValueError("No fmt chunk found")
            /\ ppc' = "walk_end"
            /\ UNCHANGED walkPos
       ELSE LET chunk_id == Slice(input.header, walkPos, walkPos + 4)
                chunk_size == U32(Slice(input.header, walkPos + 4, walkPos + 8))
            IN  IF chunk_id = FMT
                THEN /\ info' = DecodeFmt(Slice(input.header, walkPos + 8,
                                                walkPos + 8 + chunk_size))
                     /\ ppc' = "walk_end"
                     /\ UNCHANGED walkPos
                ELSE /\ walkPos' = WalkAdvance(walkPos, chunk_size)
                     /\ UNCHANGED <<info, ppc>>
    /\ UNCHANGED <<input, rd, hdrLen, dataStart, dataOff, dataLen, idx, fifo,
                   pushed, chunkLens, smVars, pinVars, hostVars>>

InitWalk ==
    /\ input \in WalkInputs
    /\ ppc = "walk_start"
    /\ InitDevice
    /\ osr = ZeroWord /\ bck = 0 /\ ws = 0

NextWalk == WalkStart \/ WalkStep

\* The interpreter runs the function on: it takes a step whenever one is
\* there to take.
SpecWalk == InitWalk /\ [][NextWalk]_vars /\ WF_vars(NextWalk)

---------------------------------------------------------------------------
(* Properties. *)

\* Words that have left the TX FIFO.
NumPopped == Len(pushed) - Len(fifo)

\* The TX FIFO holds, in push order, the packed frames pushed last.
FifoHoldsPushed ==
    /\ Len(fifo) <= Len(pushed)
    /\ \A k \in 1..Len(fifo) :
          fifo[k] = Pack(pushed[NumPopped + k][1], pushed[NumPopped + k][2])

\* Bit b (0 = least significant) of the 16-bit two's complement of v.
Bit16(v, b) == ((v % 65536) \div (2 ^ b)) % 2

\* The frame whose 32 bits bitsOut is collecting: the n-th pass of the program
\* shifts the n-th frame.  Meaningful while cycles < MaxCycles.
FrameNo == IF spc = 0 THEN cycles ELSE cycles + 1

\* The four states of the bit shifter.
ShifterState ==
    CASE spc = 0 -> "AwaitWordSelectLow"
      [] spc \in 1..5 -> "ShiftLeft"
      [] spc = 6 -> "AwaitWordSelectHigh"
      [] spc \in 7..11 -> "ShiftRight"

NextShifterState(st) ==
    CASE st = "AwaitWordSelectLow" -> "ShiftLeft"
      [] st = "ShiftLeft" -> "AwaitWordSelectHigh"
      [] st = "AwaitWordSelectHigh" -> "ShiftRight"
      [] st = "ShiftRight" -> "AwaitWordSelectLow"

Fed == Slice(Stream(input), 0, rd)

RECURSIVE GroupFrames(_)
\* The bytes split into 4-byte groups, each a frame of two little-endian
\* signed 16-bit samples; a final incomplete group is dropped.
GroupFrames(bytes) ==
    IF Len(bytes) < 4 THEN <<>>
    ELSE <<<<S16(SubSeq(bytes, 1, 2)), S16(SubSeq(bytes, 3, 4))>>>>
            \o GroupFrames(SubSeq(bytes, 5, Len(bytes)))

\* Every chunk handed over so far, but the last, is a whole number of frames.
ChunksAligned == \A k \in 1..(Len(chunkLens) - 1) : chunkLens[k] % 4 = 0

\* C2 (as claimed): whatever the chunk sizes, once send_samples has returned
\* from every chunk the frames pushed are the 4-byte groups of the
\* concatenation of the chunks.
C2_AnySplit ==
    (ppc = "stream") => pushed = GroupFrames(Fed)

\* C2 (amended): when every chunk but the last has a length that is a multiple
\* of 4, the frames pushed are the 4-byte groups of the concatenation of the
\* chunks, a final incomplete group dropped.
C2_AlignedSplit ==
    (ppc = "stream" /\ ChunksAligned) => pushed = GroupFrames(Fed)

\* C2 witness: a 4-byte chunk and then a last chunk that is not a multiple of
\* 4 have been sent, two frames pushed.
C2_Witness ==
    /\ ppc = "stream"
    /\ Len(chunkLens) = 2
    /\ chunkLens[1] = 4
    /\ chunkLens[2] % 4 # 0
    /\ Len(pushed) = 2

\* C3 (as claimed): the shifter leaves AwaitWordSelectLow only while
\* word-select (GP1) is low and AwaitWordSelectHigh only while it is high, and
\* it goes through its four states in cyclic order.
C3_WordSelectGates ==
    [][ /\ (spc = 0 /\ spc' # 0) => ws = 0
        /\ (spc = 6 /\ spc' # 6) => ws = 1
        /\ ShifterState' \in {ShifterState, NextShifterState(ShifterState)} ]_vars

\* C4 (as claimed): the bits presented for a frame that was pushed before its
\* pass began are its left sample and then its right sample, each from bit 15
\* down to bit 0.
C4_MsbFirst ==
    (cycles < MaxCycles /\ FrameNo >= 1 /\ FrameNo <= pushedAtStart) =>
        \A k \in 1..Len(bitsOut) :
            bitsOut[k] = IF k <= 16
                         THEN Bit16(pushed[FrameNo][1], 16 - k)
                         ELSE Bit16(pushed[FrameNo][2], 32 - k)

\* C5 (as claimed): the shifter pops one frame per pass of its program, and
\* the 32 bits of the n-th pass are the n-th frame pushed.
C5_OnePopPerCycle ==
    cycles < MaxCycles =>
        /\ NumPopped >= cycles
        /\ NumPopped <= cycles + 1
        /\ (spc = 0 /\ cycles >= 1) =>
              bitsOut = [k \in 1..32 |->
                            IF 32 - k \in Pack(pushed[cycles][1], pushed[cycles][2])
                            THEN 1 ELSE 0]

\* The producer is inside send_sample with a frame in hand.
InSendSample == ppc = "send" /\ idx < dataLen /\ HasFrameAt(idx, dataLen)

\* C6: the TX FIFO never holds more than FifoDepth words; it holds the frames
\* pushed and not popped, none dropped; and while it is full a producer inside
\* send_sample stays there, with the FIFO and the frames pushed unchanged.
C6_BoundedBlocking ==
    /\ [](Len(fifo) <= FifoDepth /\ FifoHoldsPushed)
    /\ [][(InSendSample /\ Len(fifo) = FifoDepth) =>
              (InSendSample' /\ idx' = idx /\ fifo' = fifo /\ pushed' = pushed)]_vars

\* C6 witness: the producer is inside send_sample and the FIFO is full.
C6_Witness == InSendSample /\ Len(fifo) = FifoDepth /\ Len(pushed) = FifoDepth

\* C7 (as claimed): the session over the stream with the 44-byte header and
\* the 8 payload bytes reports PCM, 2 channels, 44100 Hz, 16 bits and pushes
\* the frames (1, 2) and (-1, -32768).
C7_EndToEnd ==
    (input = 1 /\ ppc = "complete") =>
        /\ info = [outcome |-> "ok", format |-> 1, channels |-> 2,
                   sample_rate |-> 44100, bits |-> 16]
        /\ pushed = << <<1, 2>>, <<-1, -32768>> >>

\* C8 (as claimed): after end-of-stream nothing more is pushed, and the FIFO
\* eventually drains.
C8_DrainsAfterEnd ==
    /\ [][ppc = "complete" => pushed' = pushed]_vars
    /\ (ppc = "complete") ~> (fifo = <<>>)

\* C9 (as claimed): the shifter presents no bit of a pass for which no frame
\* has been pushed: the n-th pass presents bits, and completes, only after
\* the n-th push; with no frame pushed it never presents a bit.
C9_StarvationBlocks ==
    /\ cycles <= Len(pushed)
    /\ (cycles < MaxCycles /\ bitsOut # <<>>) => FrameNo <= Len(pushed)

\* C10: the descriptor parse_wav_header returns has the format code, channel
\* count, sample rate and bits per sample the `fmt ` chunk encodes, whatever
\* chunks stand between `fmt ` and `data`.
C10_FieldsDecoded ==
    (ppc = "parsed") =>
        info = [outcome |-> "ok", format |-> input.format,
                channels |-> input.channels, sample_rate |-> input.rate,
                bits |-> input.bits]

\* C10 witness: a header with two unknown chunks between `fmt ` and `data`,
\* one of them declaring a length past the end, has been parsed.
C10_Witness ==
    /\ ppc = "parsed"
    /\ Len(input.mid) = 2
    /\ input.mid[1] = 1000
    /\ info.outcome = "ok"
    /\ info.bits = 24

\* C11: whenever bytes 0..3 of the header are not RIFF or bytes 8..11 are not
\* WAVE, parse_wav_header ends in the ValueError of line 100 and returns no
\* descriptor, whatever the rest of the bytes holds.
C11_MagicRequired ==
    (/\ ppc = "parsed_damaged"
     /\ \/ Slice(DamagedInput(input), 0, 4) # RIFF
        \/ Slice(DamagedInput(input), 8, 12) # WAVE)
    => info = ValueError("Not a valid WAV file")

\* C11 witness: bytes with RIFX for RIFF, WAVE in place and a well-formed
\* `fmt ` chunk at offset 12 have been parsed.
C11_Witness ==
    /\ ppc = "parsed_damaged"
    /\ input.damage = "riff"
    /\ input.fields.pre = 0
    /\ Slice(DamagedInput(input), 8, 12) = WAVE
    /\ Slice(DamagedInput(input), 12, 16) = FMT
    /\ info.outcome = "ValueError"

\* C12: a session whose header read came short of 44 bytes, or whose header
\* parse ended in ValueError (magic absent, no `fmt ` chunk in the bytes
\* read), has ended there: no frame pushed, the TX FIFO as at the start, and
\* no byte read past the header.
C12_FailedParsePushesNothing ==
    (ppc = "incomplete" \/ info.outcome = "ValueError") =>
        /\ ppc \in {"incomplete", "error"}
        /\ pushed = <<>>
        /\ fifo = <<>>
        /\ chunkLens = <<>>
        /\ rd = hdrLen
        /\ rd <= HeaderSize

\* C12 witness: the session of a stream with no `fmt ` chunk in its first 44
\* bytes, and audio after them, has ended in the error, and the state
\* machine has since completed a pass of its program.
C12_Witness ==
    /\ ppc = "error"
    /\ info = ValueError("No fmt chunk found")
    /\ Len(Stream(input)) > HeaderSize
    /\ cycles >= 1
    /\ pushed = <<>>

RECURSIVE DataAt(_, _)
\* Offset of the payload of the first `data` chunk of a whole stream, walking
\* its chunks from pos; -1 when it has none.
DataAt(stream, pos) ==
    IF pos + 8 > Len(stream)
    THEN -1
    ELSE IF Slice(stream, pos, pos + 4) = DATA
         THEN pos + 8
         ELSE DataAt(stream, pos + 8 + U32(Slice(stream, pos + 4, pos + 8)))

\* The payload of that chunk.
DataPayload(stream) ==
    LET at == DataAt(stream, 12)
    IN  Slice(stream, at, at + U32(Slice(stream, at - 4, at)))

\* C13 (as claimed): in a session whose header parsed and whose `data` chunk
\* header lies past the first 44 bytes, the first frame pushed is the first
\* four payload bytes of the `data` chunk, and at `Streaming complete` the
\* frames pushed are exactly the payload, none skipped and none added.
C13_DataFoundLater ==
    (info.outcome = "ok" /\ DataAt(Stream(input), 12) > HeaderSize) =>
        /\ pushed # <<>> => pushed[1] = GroupFrames(DataPayload(Stream(input)))[1]
        /\ ppc = "complete" => pushed = GroupFrames(DataPayload(Stream(input)))

RECURSIVE FieldValue(_, _, _)
\* The unsigned value of bits base+b .. base+15 of word w, weighted from 2^b.
FieldValue(w, base, b) ==
    IF b > 15 THEN 0
    ELSE (IF base + b \in w THEN 2 ^ b ELSE 0) + FieldValue(w, base, b + 1)

\* A 16-bit field read as two's complement.
Signed16(v) == IF v >= 32768 THEN v - 65536 ELSE v

\* C14: the word send_sample(left, right) puts is a 32-bit word whose high 16
\* bits read as two's complement give left and whose low 16 bits give right.
C14_PackRoundTrip ==
    (ppc = "packed") =>
        /\ Len(fifo) = 1
        /\ fifo[1] \subseteq 0..31
        /\ Signed16(FieldValue(fifo[1], 16, 0)) = input.left
        /\ Signed16(FieldValue(fifo[1], 0, 0)) = input.right

\* C14 witness: send_sample(-32768, 32767) has put its word.
C14_Witness ==
    /\ ppc = "packed"
    /\ input.left = -32768
    /\ input.right = 32767
    /\ fifo = <<(0..14) \cup {31}>>

\* The frames of the bytes that follow what stream_audio read as header.
FramesAfterHeader == GroupFrames(Slice(Stream(input), hdrLen, Len(Stream(input))))

\* C15: a descriptor with bits per sample other than 16 or a channel count
\* other than 2 does not end the session: the frames pushed are the 4-byte
\* groups of the bytes after the header, as for a 16-bit stereo descriptor,
\* and the 8-bit mono stream ends with the frames its 16-bit stereo twin
\* ends with.
C15_FormatOnlyWarns ==
    /\ (info.outcome = "ok" /\ (info.bits # 16 \/ info.channels # 2)) =>
           /\ ppc \notin {"error", "incomplete"}
           /\ pushed = SubSeq(FramesAfterHeader, 1, Len(pushed))
           /\ ppc = "complete" => pushed = FramesAfterHeader
    /\ (ppc = "complete" /\ input \in {2, 7}) => pushed = GroupFrames(TwoFrames)

\* C15 witness: the session of the 8-bit mono stream has reached `Streaming
\* complete` with two frames pushed.
C15_Witness ==
    /\ ppc = "complete"
    /\ info.outcome = "ok"
    /\ info.bits = 8
    /\ info.channels = 1
    /\ Len(pushed) = 2

\* C16 (as claimed): each shift state presents exactly 16 bits; the shifter
\* goes on to present a bit only while the bit-clock (GP0) is high, and goes
\* on from a presented bit only while the bit-clock is low.
C16_SixteenBitsOnClock ==
    /\ [](/\ spc \in 1..5 => Len(bitsOut) <= 16
          /\ spc = 6 => Len(bitsOut) = 16
          /\ spc \in 7..11 => (Len(bitsOut) >= 16 /\ Len(bitsOut) <= 32)
          /\ (spc = 0 /\ bitsOut # <<>>) => Len(bitsOut) = 32)
    /\ [][ /\ (spc \in {2, 8} /\ spc' = spc + 1) => bck = 1
           /\ (spc \in {4, 10} /\ spc' = spc + 1) => bck = 0 ]_vars

\* C17 (as claimed): with the master toggling its clocks and the shifter
\* running, a session whose header parsed reaches `Streaming complete`; the
\* producer does not stay in a push for ever.
C17_StreamingCompletes ==
    /\ (info.outcome = "ok") ~> (ppc = "complete")
    /\ InSendSample ~> ~InSendSample

RECURSIVE Concat(_)
\* The chunks of a sequence, joined.
Concat(chunks) ==
    IF chunks = <<>> THEN <<>> ELSE Head(chunks) \o Concat(Tail(chunks))

\* C18: the chunks send_wav_file has written, joined, are wav_data up to the
\* loop position; every chunk but the last has chunk_size bytes and the last
\* has 1..chunk_size; sent counts the bytes written; when the loop has ended
\* the chunks joined are wav_data and sent is total_size.
C18_HostChunks ==
    (ppc \in {"host_send", "host_done"}) =>
        /\ Concat(written) = Slice(input.wav_data, 0, sendAt)
        /\ \A k \in 1..(Len(written) - 1) : Len(written[k]) = input.chunk_size
        /\ written # <<>> =>
              (/\ Len(written[Len(written)]) >= 1
               /\ Len(written[Len(written)]) <= input.chunk_size)
        /\ sent = Len(Concat(written))
        /\ ppc = "host_done" =>
              (Concat(written) = input.wav_data /\ sent = Len(input.wav_data))

\* C18 witness: the loop has ended after three or more chunks, the last one
\* shorter than chunk_size.
C18_Witness ==
    /\ ppc = "host_done"
    /\ Len(written) >= 3
    /\ Len(written[Len(written)]) < input.chunk_size
    /\ sent = Len(input.wav_data)

\* C19: the chunk walk of parse_wav_header ends on every header, with a
\* descriptor or with a ValueError, the same the function gives as a whole;
\* every iteration that stays in the loop moves pos forward.
C19_WalkTerminates ==
    /\ <>(ppc = "walk_end" /\ info.outcome \in {"ok", "ValueError"})
    /\ [](ppc = "walk_end" => info = parse_wav_header(input.header))
    /\ [][(ppc = "walk" /\ ppc' = "walk") => walkPos' > walkPos]_vars

\* C19 witness: the walk has ended after a chunk declaring 0 bytes and a
\* chunk declaring 1000, with pos past the end of the header.
C19_Witness ==
    /\ ppc = "walk_end"
    /\ input.lens = <<0, 1000>>
    /\ walkPos > Len(input.header)
    /\ info = ValueError("No fmt chunk found")

====
